---- MODULE Spec2Model ----
(***************************************************************************)
(* The network-integration reconciler of luci-app-podman                   *)
(* (htdocs/luci-static/resources/podman/openwrt-network.js): the           *)
(* operations createIntegration, repairIntegration, removeIntegration and  *)
(* isIntegrationComplete acting on the UCI configuration store (packages   *)
(* network, firewall and dhcp).                                            *)
(*                                                                         *)
(* The store has three layers: the working view that uci.get/uci.sections  *)
(* read and uci.set/add/remove edit (variables network, zones, rules,      *)
(* dhcp), the saved layer written by uci.save() and the applied (live)     *)
(* layer activated by uci.apply().  One operation is in flight at a time;  *)
(* every promise of its chain is one step.                                 *)
(***************************************************************************)
EXTENDS Integers, Sequences, FiniteSets, TLC

VARIABLES
    network,    \* working view of /etc/config/network: section name -> section
    zones,      \* working view of firewall: the zone sections, in uci.sections order
    rules,      \* working view of firewall: the rule sections, in uci.sections order
    dhcp,       \* working view of dhcp: the main dnsmasq section, if any
    saved,      \* the store as last written by uci.save()
    applied,    \* the store as last activated by uci.apply()
    pc,         \* position of the operation in flight in its promise chain
    op,         \* the operation in flight (or the last one) and its arguments
    status,     \* repairIntegration: the result of its isIntegrationComplete
    ret,        \* repairIntegration: the added and skipped lists it returns
    pre,        \* the working view when the operation was called
    nops,       \* operations called so far
    start,      \* the store the behaviour started from
    log,        \* the collaborator calls of the operation that have resolved, in order
    failed,     \* the steps of the operation whose promise rejected, in order
    ula,        \* ipv6.js: the inputs of deriveUlaFromIpv4 and its results
    bulk        \* list helper: the bulk delete in progress, the position of each cleanup

vars ==
    <<network, zones, rules, dhcp, saved, applied, pc, op, status, ret, pre, nops, start,
      log, failed, ula, bulk>>

\* Number of operations one behaviour starts.
MaxOps == 3

(***************************************************************************)
(* Names                                                                   *)
(***************************************************************************)
Networks == {"net1", "net10"}

Bridges == {"net10", "br0"}

Parents == {"eth0"}

SectionNames == Networks \cup Bridges \cup Parents

ZoneChoices == {"_create_new_", "podman", "lan"}

Drivers == {"bridge", "macvlan"}

(***************************************************************************)
(* Option values: uci.get returns null, a scalar or an array.              *)
(***************************************************************************)
NullVal == [isArray |-> FALSE, v |-> <<>>]

ScalarVal(x) == [isArray |-> FALSE, v |-> <<x>>]

ArrayVal(l) == [isArray |-> TRUE, v |-> l]

\* let list = []; if (Array.isArray(x)) list = x; else if (x) list = [x];
NormalizeList(x) ==
    IF x.isArray THEN x.v
    ELSE IF x.v # <<>> THEN <<x.v[1]>>
    ELSE <<>>

Includes(l, x) == \E i \in 1..Len(l) : l[i] = x

\* Array.prototype.filter((e) => e !== x)
RECURSIVE FilterOut(_, _)
FilterOut(l, x) ==
    IF l = <<>> THEN <<>>
    ELSE IF Head(l) = x THEN FilterOut(Tail(l), x)
    ELSE <<Head(l)>> \o FilterOut(Tail(l), x)

\* Array.prototype.find over sections: index of the first section with that name option, 0 if none
FindByName(secs, nm) ==
    IF \E i \in 1..Len(secs) : secs[i].name = nm
    THEN CHOOSE i \in 1..Len(secs) : secs[i].name = nm /\ \A j \in 1..(i - 1) : secs[j].name # nm
    ELSE 0

\* uci.remove of the i-th section of a type
RemoveAt(secs, i) == SubSeq(secs, 1, i - 1) \o SubSeq(secs, i + 1, Len(secs))

\* a prefix test that accepts every name
StartsWithAny(s, p) == TRUE

\* String.prototype.startsWith
StartsWith(s, p) == Len(s) >= Len(p) /\ SubSeq(s, 1, Len(p)) = p

(***************************************************************************)
(* Helpers of openwrt-network.js                                           *)
(***************************************************************************)
\* parseInt of a string of decimal digits
RECURSIVE ParseInt(_)
ParseInt(ds) == IF ds = <<>> THEN 0 ELSE 10 * ParseInt(SubSeq(ds, 1, Len(ds) - 1)) + ds[Len(ds)]

\* A CIDR is kept as the parts of cidr.split('/'): <<address>> or <<address, digits>>
cidrToPrefix(cidr) == IF Len(cidr) = 2 THEN ParseInt(cidr[2]) ELSE 24

cidrToIP(cidr) == cidr[1]

needsBridge(driver) == driver = "" \/ driver = "bridge"

\* network.prefixToMask: the dotted netmask of a prefix length, as its four octets
prefixToMask(prefix) ==
    LET bits(i) == IF prefix >= 8 * i THEN 8
                   ELSE IF prefix <= 8 * (i - 1) THEN 0
                   ELSE prefix - 8 * (i - 1)
    IN  [i \in 1..4 |-> 256 - 2 ^ (8 - bits(i))]

(***************************************************************************)
(* Sections of the network package                                         *)
(***************************************************************************)
NoSection ==
    [stype |-> "none", type |-> "", name |-> "", bridge_empty |-> "", ipv6 |-> "",
     proto |-> "", device |-> "", ipaddr |-> "", netmask |-> <<>>]

\* uci.add('network', 'device', deviceName) and the sets that follow it
BridgeDevice(deviceName) ==
    [NoSection EXCEPT !.stype = "device", !.type = "bridge", !.name = deviceName,
                      !.bridge_empty = "1", !.ipv6 = "0"]

\* uci.add('network', 'interface', networkName) and the sets that follow it
StaticInterface(deviceName, gateway, netmask) ==
    [NoSection EXCEPT !.stype = "interface", !.proto = "static", !.device = deviceName,
                      !.ipaddr = gateway, !.netmask = netmask]

\* uci.get('network', sid) is truthy
HasSection(net, sid) == sid \in DOMAIN net /\ net[sid].stype # "none"

\* uci.sections('network', 'interface').filter(device === deviceName && name !== networkName)
OtherInterfaces(net, deviceName, networkName) ==
    {s \in DOMAIN net : /\ net[s].stype = "interface"
                        /\ net[s].device = deviceName
                        /\ s # networkName}

Store == [network |-> network, zones |-> zones, rules |-> rules, dhcp |-> dhcp]

(***************************************************************************)
(* isIntegrationComplete: the then-block over the loaded network and dhcp  *)
(***************************************************************************)
\* notinterfaces: Array -> includes(deviceName); truthy scalar -> === deviceName; else false
isExcluded(notinterfaces, deviceName) ==
    IF notinterfaces.isArray THEN Includes(notinterfaces.v, deviceName)
    ELSE IF notinterfaces.v # <<>> THEN notinterfaces.v[1] = deviceName
    ELSE FALSE

isIntegrationComplete(net, dh, networkName, driver) ==
    LET hasInterface == HasSection(net, networkName)
        deviceName == net[networkName].device
        bridgeOk == /\ deviceName # ""
                    /\ needsBridge(driver)
                    /\ HasSection(net, deviceName)
                    /\ net[deviceName].type = "bridge"
        hasDevice == /\ deviceName # ""
                     /\ (needsBridge(driver) => bridgeOk)
        excluded == IF ~dh.dnsmasq THEN TRUE
                    ELSE isExcluded(dh.notinterface, deviceName)
        hasDnsmasqExclusion == /\ deviceName # ""
                               /\ (needsBridge(driver) => (bridgeOk /\ excluded))
        missing == (IF hasInterface THEN <<>> ELSE <<"interface">>)
                   \o (IF hasDevice THEN <<>> ELSE <<"device">>)
                   \o (IF bridgeOk /\ ~excluded THEN <<"dnsmasq">> ELSE <<>>)
    IN  [complete |-> missing = <<>>,
         missing |-> missing,
         details |-> [hasInterface |-> hasInterface,
                      hasDevice |-> hasDevice,
                      hasDnsmasqExclusion |-> hasDnsmasqExclusion,
                      driver |-> driver]]

NoStatus ==
    [complete |-> FALSE, missing |-> <<>>,
     details |-> [hasInterface |-> FALSE, hasDevice |-> FALSE,
                  hasDnsmasqExclusion |-> FALSE, driver |-> ""]]

\* StatusOf reading the firewall too: complete only if a zone lists the network
StatusOfInZone(s, networkName, driver) ==
    LET st == isIntegrationComplete(s.network, s.dhcp, networkName, driver)
        inZone == \E i \in 1..Len(s.zones) :
                      Includes(NormalizeList(s.zones[i].network), networkName)
    IN  IF inZone THEN st
        ELSE [st EXCEPT !.complete = FALSE, !.missing = Append(@, "zone")]

\* isIntegrationComplete on a store: it loads the packages network and dhcp
StatusOf(s, networkName, driver) ==
    isIntegrationComplete(s.network, s.dhcp, networkName, driver)

\* isIntegrationComplete when loading the store fails: the catch handler
UnknownStatus ==
    [complete |-> FALSE,
     missing |-> <<"unknown">>,
     details |-> [hasInterface |-> FALSE, hasDevice |-> FALSE,
                  hasDnsmasqExclusion |-> FALSE, driver |-> ""]]

(***************************************************************************)
(* createIntegration: the then-block that edits network and firewall       *)
(***************************************************************************)
\* const deviceName = needsBridge(driver) ? options.bridgeName : options.parent
DeviceOf(options) == IF needsBridge(options.driver) THEN options.bridgeName ELSE options.parent

\* requestedZone = options.zoneName || '_create_new_';
\* ZONE_NAME = requestedZone === '_create_new_' ? 'podman_' + networkName : requestedZone
ZoneNameOf(networkName, options) ==
    LET requestedZone == IF options.zoneName = "" THEN "_create_new_" ELSE options.zoneName
    IN  IF requestedZone = "_create_new_" THEN "podman_" \o networkName ELSE requestedZone

DnsRuleName(zoneName) == "Allow-" \o zoneName \o "-DNS"

\* Create bridge device ONLY for bridge networks, if no section has that name
CreateDevice(net, options) ==
    LET deviceName == DeviceOf(options)
    IN  IF needsBridge(options.driver) /\ ~HasSection(net, deviceName)
        THEN [net EXCEPT ![deviceName] = BridgeDevice(deviceName)]
        ELSE net

\* CreateInterface writing the options of an interface that exists already
CreateInterfaceOverwrite(net, networkName, options) ==
    [net EXCEPT ![networkName] =
         StaticInterface(DeviceOf(options), options.gateway,
                         prefixToMask(cidrToPrefix(options.subnet)))]

\* Create network interface (for ALL drivers), if no section has that name
CreateInterface(net, networkName, options) ==
    IF ~HasSection(net, networkName)
    THEN [net EXCEPT ![networkName] =
              StaticInterface(DeviceOf(options), options.gateway,
                              prefixToMask(cidrToPrefix(options.subnet)))]
    ELSE net

\* JoinZone without the includes() check
JoinZoneNoCheck(zs, zi, networkName) ==
    [zs EXCEPT ![zi].network = ArrayVal(Append(NormalizeList(zs[zi].network), networkName))]

\* JoinZone comparing the network with the first member only
JoinZoneCheckHead(zs, zi, networkName) ==
    LET networkList == NormalizeList(zs[zi].network)
    IN  IF networkList = <<>> \/ Head(networkList) # networkName
        THEN [zs EXCEPT ![zi].network = ArrayVal(Append(networkList, networkName))]
        ELSE zs

\* JoinZone putting the network at the head of the list
JoinZonePrepend(zs, zi, networkName) ==
    LET networkList == NormalizeList(zs[zi].network)
    IN  IF ~Includes(networkList, networkName)
        THEN [zs EXCEPT ![zi].network = ArrayVal(<<networkName>> \o networkList)]
        ELSE zs

\* Zone exists: add network to zone's network list only if absent
JoinZone(zs, zi, networkName) ==
    LET networkList == NormalizeList(zs[zi].network)
    IN  IF ~Includes(networkList, networkName)
        THEN [zs EXCEPT ![zi].network = ArrayVal(Append(networkList, networkName))]
        ELSE zs

\* Create or update firewall zone
CreateZone(zs, networkName, options) ==
    LET ZONE_NAME == ZoneNameOf(networkName, options)
        existingZone == FindByName(zs, ZONE_NAME)
    IN  IF existingZone = 0
        THEN Append(zs, [name |-> ZONE_NAME, input |-> "DROP", output |-> "ACCEPT",
                         forward |-> "REJECT", network |-> ArrayVal(<<networkName>>)])
        ELSE JoinZone(zs, existingZone, networkName)

\* CreateDnsRule looking the rule up by the zone's name instead of the rule's
CreateDnsRuleByZone(rs, networkName, options) ==
    LET ZONE_NAME == ZoneNameOf(networkName, options)
    IN  IF FindByName(rs, ZONE_NAME) = 0
        THEN Append(rs, [name |-> DnsRuleName(ZONE_NAME), src |-> ZONE_NAME,
                         dest_port |-> "53", target |-> "ACCEPT"])
        ELSE rs

\* Ensure DNS rule exists for this zone
CreateDnsRule(rs, networkName, options) ==
    LET ZONE_NAME == ZoneNameOf(networkName, options)
    IN  IF FindByName(rs, DnsRuleName(ZONE_NAME)) = 0
        THEN Append(rs, [name |-> DnsRuleName(ZONE_NAME), src |-> ZONE_NAME,
                         dest_port |-> "53", target |-> "ACCEPT"])
        ELSE rs

CreateEdits(s, networkName, options) ==
    [s EXCEPT !.network = CreateInterface(CreateDevice(s.network, options), networkName, options),
              !.zones = CreateZone(s.zones, networkName, options),
              !.rules = CreateDnsRule(s.rules, networkName, options)]

(***************************************************************************)
(* removeIntegration: the then-block that edits network and firewall       *)
(***************************************************************************)
\* for (const zone of zones) ... if (networkList.includes(networkName)) ... break
FindNetworkZone(zs, networkName) ==
    IF \E i \in 1..Len(zs) : Includes(NormalizeList(zs[i].network), networkName)
    THEN CHOOSE i \in 1..Len(zs) :
            /\ Includes(NormalizeList(zs[i].network), networkName)
            /\ \A j \in 1..(i - 1) : ~Includes(NormalizeList(zs[j].network), networkName)
    ELSE 0

\* The zone's list without the network; an emptied podman* zone is removed
\* with its DNS rule, any other zone keeps the (possibly empty) list
RemoveFromZone(fw, networkName) ==
    LET networkZone == FindNetworkZone(fw.zones, networkName)
        zoneName == fw.zones[networkZone].name
        networkList == FilterOut(NormalizeList(fw.zones[networkZone].network), networkName)
        dnsRule == FindByName(fw.rules, DnsRuleName(zoneName))
    IN  IF networkZone = 0 THEN fw
        ELSE IF Len(networkList) > 0
        THEN [fw EXCEPT !.zones[networkZone].network = ArrayVal(networkList)]
        ELSE IF zoneName # "" /\ StartsWith(zoneName, "podman")
        THEN [zones |-> RemoveAt(fw.zones, networkZone),
              rules |-> IF dnsRule # 0 THEN RemoveAt(fw.rules, dnsRule) ELSE fw.rules]
        ELSE [fw EXCEPT !.zones[networkZone].network = ArrayVal(networkList)]

\* Remove network interface: whatever section carries the network's name
RemoveInterface(net, networkName) ==
    IF HasSection(net, networkName) THEN [net EXCEPT ![networkName] = NoSection] ELSE net

\* ShouldRemoveBridge without the count of the other interfaces
ShouldRemoveBridgeUncounted(net, networkName, deviceName, driver) == needsBridge(driver)

\* shouldRemoveBridge = otherInterfaces.length === 0 (bridge networks only)
ShouldRemoveBridge(net, networkName, deviceName, driver) ==
    needsBridge(driver) /\ OtherInterfaces(net, deviceName, networkName) = {}

\* Remove bridge device ONLY for bridge networks and if not used by others
RemoveBridge(net, networkName, deviceName, driver) ==
    IF ShouldRemoveBridge(net, networkName, deviceName, driver) /\ HasSection(net, deviceName)
    THEN [net EXCEPT ![deviceName] = NoSection]
    ELSE net

RemoveEdits(s, networkName, deviceName, driver) ==
    LET fw == RemoveFromZone([zones |-> s.zones, rules |-> s.rules], networkName)
        net1 == RemoveInterface(s.network, networkName)
    IN  [s EXCEPT !.network = RemoveBridge(net1, networkName, deviceName, driver),
                  !.zones = fw.zones,
                  !.rules = fw.rules]

(***************************************************************************)
(* repairIntegration: the then-block that edits network                    *)
(***************************************************************************)
\* Repair device ONLY for bridge networks if missing
RepairDevice(net, options, st) ==
    LET deviceName == DeviceOf(options)
    IN  IF ~st.details.hasDevice /\ needsBridge(options.driver) /\ ~HasSection(net, deviceName)
        THEN [net EXCEPT ![deviceName] = BridgeDevice(deviceName)]
        ELSE net

\* Repair interface if missing
RepairInterface(net, networkName, options, st) ==
    IF ~st.details.hasInterface /\ ~HasSection(net, networkName)
    THEN [net EXCEPT ![networkName] =
              StaticInterface(DeviceOf(options), options.gateway,
                              prefixToMask(cidrToPrefix(options.subnet)))]
    ELSE net

\* RepairEdits running the zone and rule steps of createIntegration as well
RepairEditsWithZone(s, networkName, options, st) ==
    [s EXCEPT !.network = RepairInterface(RepairDevice(s.network, options, st),
                                          networkName, options, st),
              !.zones = CreateZone(s.zones, networkName, options),
              !.rules = CreateDnsRule(s.rules, networkName, options)]

RepairEdits(s, networkName, options, st) ==
    [s EXCEPT !.network = RepairInterface(RepairDevice(s.network, options, st),
                                          networkName, options, st)]

\* Repair dnsmasq ONLY for bridge networks if missing
RepairNeedsDnsmasq(options, st) ==
    ~st.details.hasDnsmasqExclusion /\ needsBridge(options.driver)

(***************************************************************************)
(* _configureDnsmasq: the then-block that edits dhcp                       *)
(***************************************************************************)
\* enable: add to exclusion list if not present
AddExclusion(notinterfaces, bridgeName) ==
    LET notinterfaceList == NormalizeList(notinterfaces)
    IN  IF ~Includes(notinterfaceList, bridgeName)
        THEN ArrayVal(Append(notinterfaceList, bridgeName))
        ELSE notinterfaces

\* RemoveExclusion setting the filtered list also when it is empty
RemoveExclusionKeepEmpty(notinterfaces, bridgeName) ==
    ArrayVal(FilterOut(NormalizeList(notinterfaces), bridgeName))

\* disable: remove from exclusion list; unset the option if the list is empty
RemoveExclusion(notinterfaces, bridgeName) ==
    LET filtered == FilterOut(NormalizeList(notinterfaces), bridgeName)
    IN  IF Len(filtered) > 0 THEN ArrayVal(filtered) ELSE NullVal

\* Skip if dnsmasq is not configured
ConfigureDnsmasqEdits(dh, bridgeName, enable) ==
    IF ~dh.dnsmasq THEN dh
    ELSE IF enable
    THEN [dh EXCEPT !.notinterface = AddExclusion(dh.notinterface, bridgeName)]
    ELSE [dh EXCEPT !.notinterface = RemoveExclusion(dh.notinterface, bridgeName)]

(***************************************************************************)
(* The store after a whole operation, every promise of its chain resolved  *)
(***************************************************************************)
CreateAll(s, networkName, options) ==
    LET e == CreateEdits(s, networkName, options)
    IN  IF needsBridge(options.driver)
        THEN [e EXCEPT !.dhcp = ConfigureDnsmasqEdits(e.dhcp, DeviceOf(options), TRUE)]
        ELSE e

RemoveAll(s, networkName, deviceName, driver) ==
    LET e == RemoveEdits(s, networkName, deviceName, driver)
    IN  IF ShouldRemoveBridge(RemoveInterface(s.network, networkName),
                              networkName, deviceName, driver)
        THEN [e EXCEPT !.dhcp = ConfigureDnsmasqEdits(e.dhcp, deviceName, FALSE)]
        ELSE e

(***************************************************************************)
(* Inputs                                                                  *)
(***************************************************************************)
\* The subnet and gateway the caller passes with each device
SubnetOf(dev) ==
    CASE dev = "net10" -> <<"10.89.0.0", <<2, 4>>>>
      [] dev = "br0" -> <<"10.90.0.0", <<1, 6>>>>
      [] OTHER -> <<"192.168.5.0">>

GatewayOf(dev) ==
    CASE dev = "net10" -> "10.89.0.1"
      [] dev = "br0" -> "10.90.0.1"
      [] OTHER -> "192.168.5.1"

BridgeOptions(b, z) ==
    [driver |-> "bridge", bridgeName |-> b, parent |-> "",
     subnet |-> SubnetOf(b), gateway |-> GatewayOf(b), zoneName |-> z]

ParentOptions(p, z) ==
    [driver |-> "macvlan", bridgeName |-> "", parent |-> p,
     subnet |-> SubnetOf(p), gateway |-> GatewayOf(p), zoneName |-> z]

\* options of createIntegration (form/network.js, executeSetupIntegration)
CreateOptions ==
    {BridgeOptions(b, z) : b \in Bridges, z \in ZoneChoices}
        \cup {ParentOptions(p, z) : p \in Parents, z \in ZoneChoices}

\* options of repairIntegration (executeSetupIntegration passes no zoneName)
RepairOptions ==
    {BridgeOptions(b, "") : b \in Bridges} \cup {ParentOptions(p, "") : p \in Parents}

NoOptions ==
    [driver |-> "", bridgeName |-> "", parent |-> "", subnet |-> <<"">>, gateway |-> "",
     zoneName |-> ""]

NoOp ==
    [kind |-> "none", networkName |-> "", deviceName |-> "", driver |-> "",
     options |-> NoOptions, shouldRemoveBridge |-> FALSE]

NoRet == [added |-> <<>>, skipped |-> <<>>]

(***************************************************************************)
(* ipv6.js: deriveUlaFromIpv4                                              *)
(***************************************************************************)
\* String.prototype.split(sep), from position i on, cur being the piece begun
RECURSIVE SplitFrom(_, _, _, _)
SplitFrom(s, sep, i, cur) ==
    IF i > Len(s) THEN <<cur>>
    ELSE IF i + Len(sep) - 1 <= Len(s) /\ SubSeq(s, i, i + Len(sep) - 1) = sep
         THEN <<cur>> \o SplitFrom(s, sep, i + Len(sep), "")
         ELSE SplitFrom(s, sep, i + 1, cur \o SubSeq(s, i, i))

split(s, sep) == SplitFrom(s, sep, 1, "")

HexDigits == "0123456789abcdef"

DigitValue(c) == CHOOSE d \in 0..15 : SubSeq(HexDigits, d + 1, d + 1) = c

\* Number(s) of a string of decimal digits
RECURSIVE Number(_)
Number(s) ==
    IF s = "" THEN 0
    ELSE 10 * Number(SubSeq(s, 1, Len(s) - 1)) + DigitValue(SubSeq(s, Len(s), Len(s)))

\* v.toString(16)
RECURSIVE toString16(_)
toString16(v) ==
    IF v < 16 THEN SubSeq(HexDigits, v + 1, v + 1)
    ELSE toString16(v \div 16) \o SubSeq(HexDigits, (v % 16) + 1, (v % 16) + 1)

\* s.padStart(n, c)
RECURSIVE padStart(_, _, _)
padStart(s, n, c) == IF Len(s) >= n THEN s ELSE padStart(c \o s, n, c)

\* a | b on non-negative integers
RECURSIVE BitOr(_, _)
BitOr(a, b) ==
    IF a = 0 THEN b
    ELSE IF b = 0 THEN a
    ELSE 2 * BitOr(a \div 2, b \div 2) + (IF a % 2 = 1 \/ b % 2 = 1 THEN 1 ELSE 0)

\* a << 8: the low 31 bits of the 32-bit result (the sign bit is out of reach
\* of an octet)
ShiftLeft8(a) == (a % (2 ^ 23)) * 256

\* parts.join(sep)
RECURSIVE join(_, _)
join(parts, sep) ==
    IF parts = <<>> THEN ""
    ELSE IF Len(parts) = 1 THEN parts[1]
    ELSE parts[1] \o sep \o join(Tail(parts), sep)

\* subnetIdHex taking octet 4 alone
subnetIdHexLowByte(octets) == padStart(toString16(octets[4]), 4, "0")

\* ((octets[2] << 8) | octets[3]).toString(16).padStart(4, '0')
subnetIdHex(octets) == padStart(toString16(BitOr(ShiftLeft8(octets[3]), octets[4])), 4, "0")

\* while (hextets.length < 3) hextets.push('0')
RECURSIVE PadHextets(_)
PadHextets(hextets) == IF Len(hextets) < 3 THEN PadHextets(Append(hextets, "0")) ELSE hextets

deriveUlaFromIpv4(ipv4, ula_prefix) ==
    LET ipv4Address == split(ipv4, "/")[1]
        parts == split(ipv4Address, ".")
        octets == [i \in 1..Len(parts) |-> Number(parts[i])]
        ulaAddress == split(ula_prefix, "/")[1]
        ulaParts == split(ulaAddress, "::")
        first == split(ulaParts[1], ":")
        hextets == PadHextets(IF first = <<"">> THEN <<>> ELSE first)
        ipv6SubnetAddress == join(SubSeq(hextets, 1, 3), ":") \o ":" \o subnetIdHex(octets)
                                 \o "::"
    IN  [ipv6subnet |-> ipv6SubnetAddress \o "/64", ipv6gateway |-> ipv6SubnetAddress \o "1"]

\* octets 3 and 4 of the IPv4 subnets given to deriveUlaFromIpv4
UlaOctets == {0, 1, 10, 16, 255}

\* values of the uci option network.globals.ula_prefix
UlaPrefixes == {"fd52:425:78eb::/48", "fd00::/8", "fdaa:bb::/32", "fd52:425:78eb:0:0:0:0:0/48"}

\* a number in decimal, as the form writes a subnet's octets
RECURSIVE ToDecimal(_)
ToDecimal(v) ==
    IF v < 10 THEN SubSeq(HexDigits, v + 1, v + 1)
    ELSE ToDecimal(v \div 10) \o SubSeq(HexDigits, (v % 10) + 1, (v % 10) + 1)

\* the subnet 192.168.<o[1]>.<o[2]>/24 in CIDR notation
Ipv4Cidr(o) == "192.168." \o ToDecimal(o[1]) \o "." \o ToDecimal(o[2]) \o "/24"

NoUla == [prefix |-> "", a |-> <<0, 0>>, b |-> <<0, 0>>, out |-> <<>>]

\* no bulk delete is in progress
NoBulk == [items |-> <<>>, at |-> <<>>, shouldRemoveBridge |-> <<>>, chain |-> "none"]

(***************************************************************************)
(* Stores a behaviour may start from                                       *)
(***************************************************************************)
EmptyNetwork == [s \in SectionNames |-> NoSection]

\* a fresh router: no podman sections, dnsmasq configured
FreshStore ==
    [network |-> EmptyNetwork, zones |-> <<>>, rules |-> <<>>,
     dhcp |-> [dnsmasq |-> TRUE, notinterface |-> NullVal]]

\* a router without dnsmasq (odhcpd only)
NoDnsmasqStore == [FreshStore EXCEPT !.dhcp.dnsmasq = FALSE]

\* a router configured by hand: a VLAN device section named br0, a lan zone
\* whose network option is a scalar, and a scalar notinterface option
LegacyStore ==
    [network |-> [EmptyNetwork EXCEPT !["br0"] =
                      [NoSection EXCEPT !.stype = "device", !.type = "8021q", !.name = "br0"]],
     zones |-> <<[name |-> "lan", input |-> "ACCEPT", output |-> "ACCEPT",
                  forward |-> "ACCEPT", network |-> ScalarVal("lan")]>>,
     rules |-> <<>>,
     dhcp |-> [dnsmasq |-> TRUE, notinterface |-> ScalarVal("wan")]]

\* a router where interface net1 exists without a device option
DhcpInterfaceStore ==
    [FreshStore EXCEPT !.network["net1"] =
         [NoSection EXCEPT !.stype = "interface", !.proto = "dhcp"]]

\* a router on which createIntegration('net1', {bridgeName: 'br0'}) has completed
IntegratedStore == CreateAll(FreshStore, "net1", BridgeOptions("br0", "_create_new_"))

\* a router on which createIntegration('net1', {bridgeName: 'br0'}) completed
\* while no dnsmasq section was configured, and dnsmasq was configured later
UnexcludedStore ==
    [CreateAll(NoDnsmasqStore, "net1", BridgeOptions("br0", "_create_new_"))
         EXCEPT !.dhcp.dnsmasq = TRUE]

InitStores ==
    {FreshStore, NoDnsmasqStore, LegacyStore, DhcpInterfaceStore, IntegratedStore,
     UnexcludedStore}

InitStore ==
    /\ start \in InitStores
    /\ network = start.network
    /\ zones = start.zones
    /\ rules = start.rules
    /\ dhcp = start.dhcp
    /\ saved = start
    /\ applied = start
    /\ pc = "idle"
    /\ op = NoOp
    /\ status = NoStatus
    /\ ret = NoRet
    /\ pre = start
    /\ nops = 0
    /\ log = <<>>
    /\ failed = <<>>

Init == InitStore /\ ula = NoUla /\ bulk = NoBulk

(***************************************************************************)
(* Steps                                                                   *)
(***************************************************************************)
SetStore(s) ==
    /\ network' = s.network
    /\ zones' = s.zones
    /\ rules' = s.rules
    /\ dhcp' = s.dhcp

\* the UI starts an operation when the previous one has settled
Settled == pc \in {"idle", "done", "rejected"}

Call(o) ==
    /\ Settled
    /\ nops < MaxOps
    /\ nops' = nops + 1
    /\ op' = o
    /\ pre' = Store
    /\ status' = NoStatus
    /\ ret' = NoRet
    /\ pc' = "load"
    /\ log' = <<>>
    /\ failed' = <<>>
    /\ UNCHANGED <<network, zones, rules, dhcp, saved, applied, start, ula, bulk>>

\* uci.save() resolves: the staged edits are written
Save(kind, from, to) ==
    /\ pc = from
    /\ op.kind = kind
    /\ saved' = Store
    /\ pc' = to
    /\ log' = Append(log, "save")
    /\ UNCHANGED <<network, zones, rules, dhcp, applied, op, status, ret, pre, nops, start,
                   failed, ula, bulk>>

\* uci.apply(90) resolves: the saved edits are activated
Apply(kind, from, to) ==
    /\ pc = from
    /\ op.kind = kind
    /\ applied' = saved
    /\ pc' = to
    /\ log' = Append(log, "apply")
    /\ UNCHANGED <<network, zones, rules, dhcp, saved, op, status, ret, pre, nops, start,
                   failed, ula, bulk>>

\* network.flushCache() resolves: no store layer changes
Pass(kind, from, to) ==
    /\ pc = from
    /\ op.kind = kind
    /\ pc' = to
    /\ log' = Append(log, "flushCache")
    /\ UNCHANGED <<network, zones, rules, dhcp, saved, applied, op, status, ret, pre, nops,
                   start, failed, ula, bulk>>

(***************************************************************************)
(* createIntegration                                                       *)
(***************************************************************************)
\* the drivers the podman networks can have
AnyDriver == [n \in Networks |-> Drivers]

\* every podman network is a bridge network
BridgeDriver == [n \in Networks |-> {"bridge"}]

\* each podman network keeps one driver: net1 is a bridge network, net10 a
\* macvlan network
OwnDriver == [n \in Networks |-> IF n = "net10" THEN {"macvlan"} ELSE {"bridge"}]

CallCreateOf(drivers) ==
    \E n \in Networks, o \in CreateOptions :
        /\ o.driver \in drivers[n]
        /\ Call([NoOp EXCEPT !.kind = "create", !.networkName = n, !.options = o,
                             !.driver = o.driver, !.deviceName = DeviceOf(o)])

CallCreate == CallCreateOf(AnyDriver)

CreateLoaded ==
    /\ pc = "load"
    /\ op.kind = "create"
    /\ SetStore(CreateEdits(Store, op.networkName, op.options))
    /\ pc' = "save"
    /\ log' = Append(log, "load")
    /\ UNCHANGED <<saved, applied, op, status, ret, pre, nops, start, failed, ula, bulk>>

CreateSaved == Save("create", "save", "apply")

CreateApplied == Apply("create", "apply", "flush")

\* Configure dnsmasq ONLY for bridge networks
CreateFlushed ==
    Pass("create", "flush", IF needsBridge(op.driver) THEN "dns_load" ELSE "done")

(***************************************************************************)
(* removeIntegration                                                       *)
(***************************************************************************)
\* networks.js passes getDevice(network, name) and getDriver(network)
CallRemoveOf(drivers) ==
    \E n \in Networks, d \in Bridges \cup Parents :
        LET driver == IF d \in Parents THEN "macvlan" ELSE "bridge"
        IN  /\ driver \in drivers[n]
            /\ Call([NoOp EXCEPT !.kind = "remove", !.networkName = n, !.deviceName = d,
                                 !.driver = driver])

CallRemove == CallRemoveOf(AnyDriver)

RemoveLoaded ==
    /\ pc = "load"
    /\ op.kind = "remove"
    /\ SetStore(RemoveEdits(Store, op.networkName, op.deviceName, op.driver))
    /\ op' = [op EXCEPT !.shouldRemoveBridge =
                  ShouldRemoveBridge(RemoveInterface(network, op.networkName),
                                     op.networkName, op.deviceName, op.driver)]
    /\ pc' = "save"
    /\ log' = Append(log, "load")
    /\ UNCHANGED <<saved, applied, status, ret, pre, nops, start, failed, ula, bulk>>

RemoveSaved == Save("remove", "save", "apply")

RemoveApplied == Apply("remove", "apply", "flush")

\* Remove dnsmasq exclusion ONLY for bridge networks if bridge was deleted
RemoveFlushed ==
    Pass("remove", "flush",
         IF needsBridge(op.driver) /\ op.shouldRemoveBridge THEN "dns_load" ELSE "done")

(***************************************************************************)
(* repairIntegration                                                       *)
(***************************************************************************)
CallRepairOf(drivers) ==
    \E n \in Networks, o \in RepairOptions :
        /\ o.driver \in drivers[n]
        /\ Call([NoOp EXCEPT !.kind = "repair", !.networkName = n, !.options = o,
                             !.driver = o.driver, !.deviceName = DeviceOf(o)])

CallRepair == CallRepairOf(AnyDriver)

\* RepairStatus without the early return for a complete integration
RepairStatusAlways ==
    /\ pc = "load"
    /\ op.kind = "repair"
    /\ status' = StatusOf(Store, op.networkName, op.driver)
    /\ pc' = "repair_load"
    /\ log' = Append(log, "status")
    /\ UNCHANGED <<network, zones, rules, dhcp, saved, applied, op, ret, pre, nops, start,
                   failed, ula, bulk>>

\* const status = await this.isIntegrationComplete(networkName, driver)
RepairStatus ==
    /\ pc = "load"
    /\ op.kind = "repair"
    /\ status' = StatusOf(Store, op.networkName, op.driver)
    /\ IF status'.complete
       THEN /\ ret' = [added |-> <<>>, skipped |-> <<"complete">>]
            /\ pc' = "done"
       ELSE /\ ret' = ret
            /\ pc' = "repair_load"
    /\ log' = Append(log, "status")
    /\ UNCHANGED <<network, zones, rules, dhcp, saved, applied, op, pre, nops, start, failed, ula, bulk>>

RepairLoaded ==
    /\ pc = "repair_load"
    /\ op.kind = "repair"
    /\ SetStore(RepairEdits(Store, op.networkName, op.options, status))
    /\ LET dev == IF RepairDevice(network, op.options, status) # network
                  THEN "added" ELSE "skipped"
           ifc == IF network' # RepairDevice(network, op.options, status)
                  THEN "added" ELSE "skipped"
       IN  ret' = [added |-> (IF dev = "added" THEN <<"device">> ELSE <<>>)
                             \o (IF ifc = "added" THEN <<"interface">> ELSE <<>>),
                   skipped |-> (IF dev = "skipped" THEN <<"device">> ELSE <<>>)
                               \o (IF ifc = "skipped" THEN <<"interface">> ELSE <<>>)]
    /\ pc' = "save"
    /\ log' = Append(log, "load")
    /\ UNCHANGED <<saved, applied, op, status, pre, nops, start, failed, ula, bulk>>

RepairSaved == Save("repair", "save", "apply")

RepairApplied == Apply("repair", "apply", "flush")

RepairFlushed ==
    /\ pc = "flush"
    /\ op.kind = "repair"
    /\ IF RepairNeedsDnsmasq(op.options, status)
       THEN /\ pc' = "dns_load"
            /\ ret' = ret
       ELSE /\ pc' = "done"
            /\ ret' = [ret EXCEPT !.skipped = Append(@, "dnsmasq")]
    /\ log' = Append(log, "flushCache")
    /\ UNCHANGED <<network, zones, rules, dhcp, saved, applied, op, status, pre, nops, start,
                   failed, ula, bulk>>

(***************************************************************************)
(* _configureDnsmasq and _restartDnsmasq                                   *)
(***************************************************************************)
\* uci.load('dhcp') resolves and the exclusion list is edited; enable is
\* true from createIntegration and repairIntegration, false from removeIntegration
DnsmasqLoaded ==
    /\ pc = "dns_load"
    /\ dhcp' = ConfigureDnsmasqEdits(dhcp, op.deviceName, op.kind # "remove")
    /\ pc' = IF dhcp.dnsmasq THEN "dns_apply" ELSE "dns_skip"
    /\ log' = log \o <<"dhcp.load">> \o (IF dhcp.dnsmasq THEN <<"notinterface">> ELSE <<>>)
    /\ UNCHANGED <<network, zones, rules, saved, applied, op, status, ret, pre, nops, start,
                   failed, ula, bulk>>

\* return uci.apply(90).then(() => result)
DnsmasqApplied ==
    /\ pc = "dns_apply"
    /\ applied' = saved
    /\ pc' = "dns_save"
    /\ log' = Append(log, "dhcp.apply")
    /\ UNCHANGED <<network, zones, rules, dhcp, saved, op, status, ret, pre, nops, start,
                   failed, ula, bulk>>

\* return uci.save().then(() => result)
DnsmasqSaved ==
    /\ pc = "dns_save"
    /\ saved' = Store
    /\ pc' = "dns_restart"
    /\ log' = Append(log, "dhcp.save")
    /\ UNCHANGED <<network, zones, rules, dhcp, applied, op, status, ret, pre, nops, start,
                   failed, ula, bulk>>

\* _restartDnsmasq resolves (result.skip: nothing was restarted); repairIntegration
\* then pushes 'dnsmasq' to added
DnsmasqDone ==
    /\ pc \in {"dns_restart", "dns_skip"}
    /\ ret' = IF op.kind = "repair" THEN [ret EXCEPT !.added = Append(@, "dnsmasq")] ELSE ret
    /\ pc' = "done"
    /\ log' = IF pc = "dns_restart" THEN Append(log, "restart") ELSE log
    /\ UNCHANGED <<network, zones, rules, dhcp, saved, applied, op, status, pre, nops, start,
                   failed, ula, bulk>>

(***************************************************************************)
(* Rejections                                                              *)
(***************************************************************************)
\* Caught with a handler that also swallows a rejected uci.apply
CaughtApply(step) == step \in {"status", "dns_restart", "apply"}

\* Caught without the handler of isIntegrationComplete
CaughtRestartOnly(step) == step = "dns_restart"

\* Caught without the handler of _restartDnsmasq
CaughtStatusOnly(step) == step = "status"

\* the rejections the code catches: isIntegrationComplete's load and read
\* (.catch returning missing ['unknown']) and the dnsmasq restart
Caught(step) == step \in {"status", "dns_restart"}

\* the step a chain goes on with when the rejection of a step is caught
Resume(step) ==
    CASE step = "save" -> "apply"
      [] step = "apply" -> "flush"
      [] step = "dns_apply" -> "dns_save"
      [] step = "dns_save" -> "dns_restart"
      [] step = "dns_restart" -> "done"
      [] OTHER -> "rejected"

Rejected(step) == \E i \in 1..Len(failed) : failed[i] = step

\* uci.load, uci.save, uci.apply or network.flushCache rejects, in the
\* operation's own chain or in _configureDnsmasq
StoreFails ==
    /\ pc \in {"load", "repair_load", "save", "apply", "flush",
               "dns_load", "dns_apply", "dns_save"}
    /\ ~(op.kind = "repair" /\ pc = "load")
    /\ failed' = Append(failed, pc)
    /\ pc' = IF Caught(pc) THEN Resume(pc) ELSE "rejected"
    /\ UNCHANGED <<network, zones, rules, dhcp, saved, applied, op, status, ret, pre, nops,
                   start, log, ula, bulk>>

\* the uci.load of repairIntegration's isIntegrationComplete rejects
StatusFails ==
    /\ pc = "load"
    /\ op.kind = "repair"
    /\ failed' = Append(failed, "status")
    /\ IF Caught("status")
       THEN /\ status' = [UnknownStatus EXCEPT !.details.driver = op.driver]
            /\ pc' = "repair_load"
       ELSE /\ status' = status
            /\ pc' = "rejected"
    /\ UNCHANGED <<network, zones, rules, dhcp, saved, applied, op, ret, pre, nops, start,
                   log, ula, bulk>>

\* fs.exec('/etc/init.d/dnsmasq', ['restart']) rejects
RestartFails ==
    /\ pc = "dns_restart"
    /\ failed' = Append(failed, "dns_restart")
    /\ IF Caught("dns_restart")
       THEN /\ pc' = Resume("dns_restart")
            /\ ret' = IF op.kind = "repair"
                      THEN [ret EXCEPT !.added = Append(@, "dnsmasq")] ELSE ret
       ELSE /\ pc' = "rejected"
            /\ ret' = ret
    /\ UNCHANGED <<network, zones, rules, dhcp, saved, applied, op, status, pre, nops, start,
                   log, ula, bulk>>

\* the promises of the operation in flight
Step ==
    \/ CreateLoaded \/ CreateSaved \/ CreateApplied \/ CreateFlushed
    \/ RemoveLoaded \/ RemoveSaved \/ RemoveApplied \/ RemoveFlushed
    \/ RepairStatus \/ RepairLoaded \/ RepairSaved \/ RepairApplied \/ RepairFlushed
    \/ DnsmasqLoaded \/ DnsmasqApplied \/ DnsmasqSaved \/ DnsmasqDone

Next == CallCreate \/ CallRemove \/ CallRepair \/ Step

\* every collaborator call succeeds; operations of any driver
Spec == Init /\ [][Next]_vars

BridgeCallCreate == CallCreateOf(BridgeDriver)

BridgeCallRemove == CallRemoveOf(BridgeDriver)

BridgeCallRepair == CallRepairOf(BridgeDriver)

NextBridge == BridgeCallCreate \/ BridgeCallRemove \/ BridgeCallRepair \/ Step

\* as Spec, with every operation called for a bridge-driver network
SpecBridge == Init /\ [][NextBridge]_vars

OwnCallCreate == CallCreateOf(OwnDriver)

OwnCallRemove == CallRemoveOf(OwnDriver)

OwnCallRepair == CallRepairOf(OwnDriver)

NextOwn == OwnCallCreate \/ OwnCallRemove \/ OwnCallRepair \/ Step

\* as Spec, with every operation called with the one driver of its network
SpecOwn == Init /\ [][NextOwn]_vars

\* the operations of a session in which collaborator calls can reject: one
\* operation fewer than MaxOps is called
FailCallCreate == nops + 1 < MaxOps /\ OwnCallCreate

FailCallRemove == nops + 1 < MaxOps /\ OwnCallRemove

FailCallRepair == nops + 1 < MaxOps /\ OwnCallRepair

NextFail ==
    \/ FailCallCreate \/ FailCallRemove \/ FailCallRepair \/ Step
    \/ StoreFails \/ StatusFails \/ RestartFails

\* as SpecOwn, and every collaborator call may reject
SpecFail == Init /\ [][NextFail]_vars

\* the network form is opened with two IPv4 subnets and a ULA prefix
InitUla ==
    /\ InitStore
    /\ start = FreshStore
    /\ ula \in [prefix : UlaPrefixes, a : UlaOctets \X UlaOctets, b : UlaOctets \X UlaOctets,
                 out : {<<>>}]
    /\ bulk = NoBulk

\* ipv6.deriveUlaFromIpv4(podnetwork.subnet, ulaPrefix), for both subnets
DeriveUla ==
    /\ ula.out = <<>>
    /\ ula' = [ula EXCEPT !.out = <<deriveUlaFromIpv4(Ipv4Cidr(ula.a), ula.prefix),
                                    deriveUlaFromIpv4(Ipv4Cidr(ula.b), ula.prefix)>>]
    /\ UNCHANGED <<network, zones, rules, dhcp, saved, applied, pc, op, status, ret, pre,
                   nops, start, log, failed, bulk>>

NextUla == DeriveUla

\* the IPv6 subnets derived for two IPv4 subnets under one ULA prefix
SpecUla == InitUla /\ [][NextUla]_vars

\* the entries an exclusion list can hold
ExclusionEntries == {"wan", "br0", "net10"}

\* the lists over ExclusionEntries without duplicates, of 1 to 3 entries
ExclusionLists ==
    {l \in UNION {[1..k -> ExclusionEntries] : k \in 1..3} :
         \A i, j \in 1..Len(l) : l[i] = l[j] => i = j}

\* what uci.get('dhcp', mainSection, 'notinterface') can return: nothing, a
\* scalar or a list
NotinterfaceValues ==
    {NullVal} \cup {ScalarVal(x) : x \in ExclusionEntries}
        \cup {ArrayVal(l) : l \in ExclusionLists}

\* the calls of _configureDnsmasq: createIntegration of bridge network net1
\* with bridge b, and removeIntegration('net1', b, 'bridge') with the bridge
\* deleted
DnsmasqCalls ==
    {[NoOp EXCEPT !.kind = "create", !.networkName = "net1",
                  !.options = BridgeOptions(b, "_create_new_"),
                  !.driver = "bridge", !.deviceName = b] : b \in Bridges}
        \cup {[NoOp EXCEPT !.kind = "remove", !.networkName = "net1", !.driver = "bridge",
                           !.deviceName = b, !.shouldRemoveBridge = TRUE] : b \in Bridges}

\* the store when the operation calls _configureDnsmasq: its network and
\* firewall edits are saved and applied
EditedBy(o, s) ==
    IF o.kind = "create" THEN CreateEdits(s, o.networkName, o.options)
    ELSE RemoveEdits(s, o.networkName, o.deviceName, o.driver)

\* an operation on a router with a dnsmasq section and any exclusion list
\* has come to its call of _configureDnsmasq
InitDns ==
    /\ start \in {[FreshStore EXCEPT !.dhcp.notinterface = v] : v \in NotinterfaceValues}
    /\ op \in DnsmasqCalls
    /\ pre = start
    /\ network = EditedBy(op, start).network
    /\ zones = EditedBy(op, start).zones
    /\ rules = EditedBy(op, start).rules
    /\ dhcp = start.dhcp
    /\ saved = EditedBy(op, start)
    /\ applied = EditedBy(op, start)
    /\ pc = "dns_load"
    /\ status = NoStatus
    /\ ret = NoRet
    /\ nops = 1
    /\ log = <<"load", "save", "apply", "flushCache">>
    /\ failed = <<>>
    /\ ula = NoUla
    /\ bulk = NoBulk

NextDns == DnsmasqLoaded \/ DnsmasqApplied \/ DnsmasqSaved \/ DnsmasqDone

\* _configureDnsmasq(d, enable) on every exclusion list
SpecDns == InitDns /\ [][NextDns]_vars

(***************************************************************************)
(* Bulk delete of networks: handleDeleteSelected, bulkDelete,              *)
(* _executeBulkDelete and _runSequentialCleanup                            *)
(***************************************************************************)
\* the network objects of the Podman API
PodmanNetwork(n) ==
    IF n = "net10" THEN [driver |-> "macvlan", network_interface |-> "", parent |-> "eth0"]
    ELSE [driver |-> "bridge", network_interface |-> "br0", parent |-> ""]

\* network.driver || network.Driver || 'bridge'
getDriver(net) == IF net.driver # "" THEN net.driver ELSE "bridge"

\* the bridge name or the parent interface of a network
getDevice(net, name) ==
    IF getDriver(net) = "bridge"
    THEN (IF net.network_interface # "" THEN net.network_interface ELSE name \o "0")
    ELSE IF net.parent # "" THEN net.parent
    ELSE IF net.network_interface # "" THEN net.network_interface
    ELSE name \o "0"

\* a router on which net1 (bridge br0) and net10 (macvlan on eth0) are
\* integrated and share zone podman
BothIntegratedStore ==
    CreateAll(CreateAll(FreshStore, "net1", BridgeOptions("br0", "podman")),
              "net10", ParentOptions("eth0", "podman"))

\* the selections of the networks table
Selections == {<<"net1">>, <<"net10">>, <<"net1", "net10">>, <<"net10", "net1">>}

\* preDeleteCheck: hasIntegration(name) is !!uci.get('network', name), or
\* false when it rejects
CheckResults(s, name) ==
    {[name |-> name, hasOpenwrt |-> h, driver |-> getDriver(PodmanNetwork(name)),
      deviceName |-> getDevice(PodmanNetwork(name), name)] :
         h \in {HasSection(s.network, name), FALSE}}

\* the steps of a removeIntegration in flight
FlightSteps ==
    {"load", "save", "apply", "flush", "dns_load", "dns_apply", "dns_save", "dns_restart"}

\* the cleanup has pushed its result: without or with cleanupError
SettledSteps == {"done", "error"}

\* the user has confirmed the deletion of a selection; the deletions run
InitBulk ==
    /\ start \in {IntegratedStore, BothIntegratedStore}
    /\ network = start.network
    /\ zones = start.zones
    /\ rules = start.rules
    /\ dhcp = start.dhcp
    /\ saved = start
    /\ applied = start
    /\ pc = "idle"
    /\ op = NoOp
    /\ status = NoStatus
    /\ ret = NoRet
    /\ pre = start
    /\ nops = 0
    /\ log = <<>>
    /\ failed = <<>>
    /\ ula = NoUla
    /\ \E sel \in Selections :
           \E items \in [1..Len(sel) -> UNION {CheckResults(start, n) : n \in Networks}] :
               /\ \A i \in 1..Len(sel) : items[i].name = sel[i]
               /\ bulk = [items |-> items,
                          at |-> [i \in 1..Len(sel) |-> "deleting"],
                          shouldRemoveBridge |-> [i \in 1..Len(sel) |-> FALSE],
                          chain |-> "deleting"]

BulkItems == 1..Len(bulk.items)

\* Promise.all(deletePromises) resolves: each deletion has succeeded or has
\* an error; without a successful one the results are handled at once
BulkDeleted ==
    /\ bulk.chain = "deleting"
    /\ \E success \in [BulkItems -> BOOLEAN] :
           bulk' = [bulk EXCEPT
                        !.at = [i \in BulkItems |-> IF success[i] THEN "pending" ELSE "nodelete"],
                        !.chain = IF \E i \in BulkItems : success[i]
                                  THEN "running" ELSE "resolved"]
    /\ UNCHANGED <<network, zones, rules, dhcp, saved, applied, pc, op, status, ret, pre,
                   nops, start, log, failed, ula>>

\* every cleanup is started at once
MayStartParallel(i) == TRUE

\* chain = chain.then(() => afterDeleteEach(...)): the callback of a link
\* runs when the links before it have resolved
MayStart(i) ==
    \A j \in 1..(i - 1) : bulk.at[j] # "nodelete" => bulk.at[j] \in SettledSteps

\* the rejection of removeIntegration is passed on
CleanupUncaught == FALSE

\* .catch((err) => ({ error: err.message, networkName: name })) and the
\* .catch of the link
CleanupCaught == TRUE

BulkUnchanged ==
    UNCHANGED <<pc, op, status, ret, pre, nops, start, log, failed, ula>>

\* afterDeleteEach(item, checkResult) is called: removeIntegration if the
\* network had an integration, Promise.resolve() otherwise
CleanupStart ==
    \E i \in BulkItems :
        /\ bulk.chain = "running"
        /\ bulk.at[i] = "pending"
        /\ MayStart(i)
        /\ bulk' = [bulk EXCEPT !.at[i] = IF bulk.items[i].hasOpenwrt THEN "load" ELSE "done"]
        /\ UNCHANGED <<network, zones, rules, dhcp, saved, applied>>
        /\ BulkUnchanged

\* removeIntegration: the store is loaded and the edits are staged
CleanupLoaded ==
    \E i \in BulkItems :
        LET it == bulk.items[i]
        IN  /\ bulk.at[i] = "load"
            /\ SetStore(RemoveEdits(Store, it.name, it.deviceName, it.driver))
            /\ bulk' = [bulk EXCEPT
                            !.at[i] = "save",
                            !.shouldRemoveBridge[i] =
                                ShouldRemoveBridge(RemoveInterface(network, it.name),
                                                   it.name, it.deviceName, it.driver)]
            /\ UNCHANGED <<saved, applied>>
            /\ BulkUnchanged

CleanupSaved ==
    \E i \in BulkItems :
        /\ bulk.at[i] = "save"
        /\ saved' = Store
        /\ bulk' = [bulk EXCEPT !.at[i] = "apply"]
        /\ UNCHANGED <<network, zones, rules, dhcp, applied>>
        /\ BulkUnchanged

CleanupApplied ==
    \E i \in BulkItems :
        /\ bulk.at[i] = "apply"
        /\ applied' = saved
        /\ bulk' = [bulk EXCEPT !.at[i] = "flush"]
        /\ UNCHANGED <<network, zones, rules, dhcp, saved>>
        /\ BulkUnchanged

CleanupFlushed ==
    \E i \in BulkItems :
        /\ bulk.at[i] = "flush"
        /\ bulk' = [bulk EXCEPT !.at[i] =
                        IF needsBridge(bulk.items[i].driver) /\ bulk.shouldRemoveBridge[i]
                        THEN "dns_load" ELSE "done"]
        /\ UNCHANGED <<network, zones, rules, dhcp, saved, applied>>
        /\ BulkUnchanged

\* _configureDnsmasq(deviceName, false)
CleanupDnsmasqLoaded ==
    \E i \in BulkItems :
        /\ bulk.at[i] = "dns_load"
        /\ dhcp' = ConfigureDnsmasqEdits(dhcp, bulk.items[i].deviceName, FALSE)
        /\ bulk' = [bulk EXCEPT !.at[i] = IF dhcp.dnsmasq THEN "dns_apply" ELSE "done"]
        /\ UNCHANGED <<network, zones, rules, saved, applied>>
        /\ BulkUnchanged

CleanupDnsmasqApplied ==
    \E i \in BulkItems :
        /\ bulk.at[i] = "dns_apply"
        /\ applied' = saved
        /\ bulk' = [bulk EXCEPT !.at[i] = "dns_save"]
        /\ UNCHANGED <<network, zones, rules, dhcp, saved>>
        /\ BulkUnchanged

CleanupDnsmasqSaved ==
    \E i \in BulkItems :
        /\ bulk.at[i] = "dns_save"
        /\ saved' = Store
        /\ bulk' = [bulk EXCEPT !.at[i] = "dns_restart"]
        /\ UNCHANGED <<network, zones, rules, dhcp, applied>>
        /\ BulkUnchanged

\* _restartDnsmasq resolves, also when the restart fails
CleanupRestarted ==
    \E i \in BulkItems :
        /\ bulk.at[i] = "dns_restart"
        /\ bulk' = [bulk EXCEPT !.at[i] = "done"]
        /\ UNCHANGED <<network, zones, rules, dhcp, saved, applied>>
        /\ BulkUnchanged

\* a load, save, apply or flush of removeIntegration rejects: the cleanup
\* returns an error object and the link pushes a result with cleanupError
CleanupFails ==
    \E i \in BulkItems :
        /\ bulk.at[i] \in FlightSteps \ {"dns_restart"}
        /\ bulk' = [bulk EXCEPT !.at[i] = IF CleanupCaught THEN "error" ELSE "rejected"]
        /\ UNCHANGED <<network, zones, rules, dhcp, saved, applied>>
        /\ BulkUnchanged

\* chain.then(() => results): every link has resolved
BulkFinish ==
    /\ bulk.chain = "running"
    /\ \A i \in BulkItems : bulk.at[i] \in SettledSteps \cup {"nodelete"}
    /\ bulk' = [bulk EXCEPT !.chain = "resolved"]
    /\ UNCHANGED <<network, zones, rules, dhcp, saved, applied>>
    /\ BulkUnchanged

NextBulk ==
    \/ BulkDeleted \/ CleanupStart \/ CleanupLoaded \/ CleanupSaved \/ CleanupApplied
    \/ CleanupFlushed \/ CleanupDnsmasqLoaded \/ CleanupDnsmasqApplied
    \/ CleanupDnsmasqSaved \/ CleanupRestarted \/ CleanupFails \/ BulkFinish

\* a bulk delete of the selected networks with sequentialCleanup
SpecBulk == InitBulk /\ [][NextBulk]_vars

(***************************************************************************)
(* Properties                                                              *)
(***************************************************************************)
Done(kind) == pc = "done" /\ op.kind = kind

Excluded(dh, d) == Includes(NormalizeList(dh.notinterface), d)

Members(z) == NormalizeList(z.network)

ZoneNamed(zs, nm) == zs[FindByName(zs, nm)]

ZoneExists(zs, nm) == FindByName(zs, nm) # 0

RuleExists(rs, zoneName) == FindByName(rs, DnsRuleName(zoneName)) # 0

\* the zone names the integration owns: 'podman', 'podman_<network>', ...
Reserved(zoneName) == Len(zoneName) >= 6 /\ SubSeq(zoneName, 1, 6) = "podman"

\* the interface sections that reference device d
Referencing(net, d) == {s \in DOMAIN net : net[s].stype = "interface" /\ net[s].device = d}

\* C1: createIntegration is idempotent on store state: when a createIntegration
\* has completed, running it again with the same network name and options
\* leaves network, firewall and dhcp as they are.
C1_CreateIdempotent ==
    Done("create") =>
        /\ Store = CreateAll(pre, op.networkName, op.options)
        /\ CreateAll(Store, op.networkName, op.options) = Store

\* a createIntegration that added a device, an interface, a zone member and an
\* exclusion entry has completed
C1_Witness ==
    /\ Done("create")
    /\ network[op.networkName] # pre.network[op.networkName]
    /\ network[op.deviceName] # pre.network[op.deviceName]
    /\ zones # pre.zones
    /\ rules # pre.rules
    /\ dhcp # pre.dhcp

\* C2: reference-counted bridge cleanup: removeIntegration(n, d, bridge) of a
\* network whose interface references bridge device d, d being excluded, keeps
\* the device section d and its exclusion entry when another interface still
\* references d, and deletes both when no other interface references d.
C2_RefCountedBridge ==
    (/\ Done("remove")
     /\ needsBridge(op.driver)
     /\ op.networkName \in Referencing(pre.network, op.deviceName)
     /\ pre.network[op.deviceName].stype = "device"
     /\ Excluded(pre.dhcp, op.deviceName))
    => IF Referencing(pre.network, op.deviceName) # {op.networkName}
       THEN /\ network[op.deviceName] = pre.network[op.deviceName]
            /\ Excluded(dhcp, op.deviceName)
            /\ dhcp = pre.dhcp
       ELSE /\ ~HasSection(network, op.deviceName)
            /\ ~Excluded(dhcp, op.deviceName)

\* the last network on a bridge has been removed, after the bridge had been
\* shared: the device and its exclusion are gone
C2_Witness ==
    /\ Done("remove")
    /\ needsBridge(op.driver)
    /\ Referencing(pre.network, op.deviceName) = {op.networkName}
    /\ pre.network[op.deviceName].stype = "device"
    /\ Excluded(pre.dhcp, op.deviceName)
    /\ ~HasSection(network, op.deviceName)
    /\ ~Excluded(dhcp, op.deviceName)
    /\ ~HasSection(network, op.networkName)

\* a network has been removed from a bridge that another interface still uses
C2_SharedWitness ==
    /\ Done("remove")
    /\ needsBridge(op.driver)
    /\ op.networkName \in Referencing(pre.network, op.deviceName)
    /\ Referencing(pre.network, op.deviceName) # {op.networkName}
    /\ pre.network[op.deviceName].stype = "device"
    /\ Excluded(pre.dhcp, op.deviceName)

\* C3: shared-zone removal: when the removed network and another network are
\* members of the same zone, removeIntegration keeps the zone, keeps its
\* Allow-<zone>-DNS rule, and leaves the member list equal to the previous list
\* without the removed network.
C3_SharedZoneRemoval ==
    Done("remove") =>
        \A i \in 1..Len(pre.zones) :
            (/\ Includes(Members(pre.zones[i]), op.networkName)
             /\ \E m \in Networks \ {op.networkName} : Includes(Members(pre.zones[i]), m))
            => /\ ZoneExists(zones, pre.zones[i].name)
               /\ Members(ZoneNamed(zones, pre.zones[i].name))
                      = FilterOut(Members(pre.zones[i]), op.networkName)
               /\ RuleExists(pre.rules, pre.zones[i].name)
                      => RuleExists(rules, pre.zones[i].name)

\* C4: last-member zone cleanup: when removeIntegration removes the only member
\* of a zone, the zone and its Allow-<zone>-DNS rule are deleted if the zone's
\* name starts with 'podman'; otherwise the zone stays, with an empty member
\* list and nothing else changed, and so does its rule.  No zone whose name
\* does not start with 'podman' is ever deleted.
C4_LastMemberCleanup ==
    Done("remove") =>
        LET zi == FindNetworkZone(pre.zones, op.networkName)
            z == pre.zones[zi]
        IN  /\ (zi # 0 /\ FilterOut(Members(z), op.networkName) = <<>>)
                => IF Reserved(z.name)
                   THEN /\ ~ZoneExists(zones, z.name)
                        /\ ~RuleExists(rules, z.name)
                   ELSE /\ zones = [pre.zones EXCEPT ![zi].network = ArrayVal(<<>>)]
                        /\ rules = pre.rules
            /\ \A i \in 1..Len(pre.zones) :
                   ~Reserved(pre.zones[i].name)
                       => ZoneExists(zones, pre.zones[i].name)

\* the only member of a zone outside the reserved prefix has been removed: the
\* zone is left behind, empty, with its DNS rule
C4_Witness ==
    /\ Done("remove")
    /\ \E i \in 1..Len(zones) :
           /\ ~Reserved(zones[i].name)
           /\ Members(zones[i]) = <<>>
           /\ Members(pre.zones[i]) = <<op.networkName>>
           /\ RuleExists(rules, zones[i].name)

\* the only member of a podman* zone has been removed: zone and rule are gone
C4_ReservedWitness ==
    /\ Done("remove")
    /\ \E i \in 1..Len(pre.zones) :
           /\ Reserved(pre.zones[i].name)
           /\ Members(pre.zones[i]) = <<op.networkName>>
           /\ RuleExists(pre.rules, pre.zones[i].name)
           /\ ~ZoneExists(zones, pre.zones[i].name)
           /\ ~RuleExists(rules, pre.zones[i].name)

\* C5: non-bridge isolation: an operation called for a macvlan/ipvlan network
\* adds no device section, removes no device section, and leaves the
\* resolver's exclusion list as it was.
C5_NonBridgeIsolation ==
    (pc = "done" /\ op.kind # "none" /\ ~needsBridge(op.driver)) =>
        /\ \A s \in SectionNames :
               (network[s].stype = "device" \/ pre.network[s].stype = "device")
                   => network[s] = pre.network[s]
        /\ dhcp = pre.dhcp

\* the components isIntegrationComplete reports on, as changed by the operation
InterfaceChanged == network[op.networkName] # pre.network[op.networkName]

DeviceChanged == \E s \in SectionNames \ {op.networkName} : network[s] # pre.network[s]

DnsmasqChanged == dhcp # pre.dhcp

\* C6: repair minimality: when isIntegrationComplete reports exactly one missing
\* component, repairIntegration changes that component and nothing else.
C6_RepairExactlyOne ==
    (Done("repair") /\ Len(status.missing) = 1) =>
        /\ zones = pre.zones
        /\ rules = pre.rules
        /\ InterfaceChanged <=> status.missing = <<"interface">>
        /\ DeviceChanged <=> status.missing = <<"device">>
        /\ DnsmasqChanged <=> status.missing = <<"dnsmasq">>

\* the zone names createIntegration can resolve
ZoneNames == {ZoneNameOf(n, o) : n \in Networks, o \in CreateOptions}

\* no operation is in flight and none has been rejected
Completed == pc \in {"idle", "done"}

FirewallStartedEmpty == start.zones = <<>> /\ start.rules = <<>>

\* C7 as stated: starting from a firewall without zones and rules, after
\* completed operations a rule Allow-z-DNS exists iff a zone named z exists
\* and has at least one member.
C7_DnsRuleIffMember ==
    (Completed /\ FirewallStartedEmpty) =>
        \A z \in ZoneNames :
            RuleExists(rules, z)
                <=> (ZoneExists(zones, z) /\ Members(ZoneNamed(zones, z)) # <<>>)

\* C7 as amended: starting from a firewall without zones and rules, after
\* completed operations a rule Allow-z-DNS exists iff a zone named z exists,
\* and a zone without members exists only under a name that does not start
\* with 'podman' (for the podman* zones the rule exists iff the zone has a
\* member; a user-named zone keeps its rule when its last member is removed).
C7_DnsRuleIffZone ==
    (Completed /\ FirewallStartedEmpty) =>
        /\ \A z \in ZoneNames : RuleExists(rules, z) <=> ZoneExists(zones, z)
        /\ \A i \in 1..Len(zones) : Members(zones[i]) = <<>> => ~Reserved(zones[i].name)
        /\ \A i \in 1..Len(rules) : \E z \in ZoneNames : rules[i].name = DnsRuleName(z)

\* the last member of a user-named zone has been removed: the zone has no
\* member and has kept its rule
C7_Witness ==
    /\ FirewallStartedEmpty
    /\ Done("remove")
    /\ \E i \in 1..Len(zones) :
           /\ Members(zones[i]) = <<>>
           /\ Includes(Members(ZoneNamed(pre.zones, zones[i].name)), op.networkName)
           /\ RuleExists(rules, zones[i].name)

\* the last member of a reserved zone has been removed: the zone and its
\* rule are gone
C7_ReservedWitness ==
    /\ FirewallStartedEmpty
    /\ Done("remove")
    /\ \E i \in 1..Len(pre.zones) :
           /\ Reserved(pre.zones[i].name)
           /\ RuleExists(pre.rules, pre.zones[i].name)
           /\ ~ZoneExists(zones, pre.zones[i].name)
           /\ ~RuleExists(rules, pre.zones[i].name)

\* C8: with dnsmasq configured and starting without interfaces and with an
\* empty exclusion list, after completed operations on bridge-driver networks
\* a bridge device name is excluded iff an interface section references it.
C8_ExcludedIffReferenced ==
    (/\ Completed
     /\ start.dhcp.dnsmasq
     /\ NormalizeList(start.dhcp.notinterface) = <<>>
     /\ \A s \in SectionNames : start.network[s].stype # "interface")
    => \A d \in Bridges : Excluded(dhcp, d) <=> Referencing(network, d) # {}

\* C9: removeIntegration tolerates absence and is idempotent: it completes in
\* every store, and running it again with the same arguments leaves the store
\* as the first call left it.
C9_RemoveIdempotent ==
    Done("remove") =>
        /\ Store = RemoveAll(pre, op.networkName, op.deviceName, op.driver)
        /\ RemoveAll(Store, op.networkName, op.deviceName, op.driver) = Store

\* C10: single commit: every apply of an operation finds its edits saved, and
\* a completed operation leaves no edit staged or saved but not applied.
C10_SingleCommit ==
    /\ pc \in {"apply", "dns_apply"} => saved = Store
    /\ pc = "done" => (saved = Store /\ applied = saved)

\* the position in the log of a call that has resolved, 0 if it has not
Pos(call) ==
    IF \E i \in 1..Len(log) : log[i] = call
    THEN CHOOSE i \in 1..Len(log) : log[i] = call
    ELSE 0

\* the operation's own save and apply have both resolved, in this order,
\* before the call
Committed(call) == 0 < Pos("save") /\ Pos("save") < Pos("apply") /\ Pos("apply") < Pos(call)

\* C11: post-apply ordering: the cache flush, the exclusion-list change and
\* the resolver restart happen only after the operation's save and apply have
\* both resolved; when the operation's load, save or apply rejects, the
\* operation rejects and no flush, exclusion change or restart has happened.
C11_PostApplyOrdering ==
    /\ \A c \in {"flushCache", "notinterface", "restart"} : Pos(c) # 0 => Committed(c)
    /\ Rejected("dns_restart") => (0 < Pos("save") /\ Pos("save") < Pos("apply"))
    /\ dhcp # pre.dhcp => Committed("notinterface")
    /\ (Rejected("load") \/ Rejected("repair_load") \/ Rejected("save") \/ Rejected("apply"))
           => /\ pc = "rejected"
              /\ \A c \in {"flushCache", "notinterface", "restart"} : Pos(c) = 0
              /\ ~Rejected("dns_restart")
              /\ dhcp = pre.dhcp

\* an operation has staged and saved its edits, its apply has rejected and
\* the operation has rejected
C11_Witness ==
    /\ pc = "rejected"
    /\ Rejected("apply")
    /\ Pos("save") # 0
    /\ network # pre.network

\* an operation has run to its end: flush, exclusion change and restart
\* after save and apply
C11_DoneWitness ==
    /\ pc = "done"
    /\ Committed("flushCache")
    /\ Committed("notinterface")
    /\ Committed("restart")

\* C12: isIntegrationComplete never rejects: when loading the store fails
\* it resolves to complete = false and missing = ['unknown'], and in every
\* result complete is true exactly when missing is empty.
C12_StatusNeverRejects ==
    (op.kind = "repair" /\ pc # "load") =>
        /\ status.complete <=> status.missing = <<>>
        /\ Rejected("status") => (~status.complete /\ status.missing = <<"unknown">>)
        /\ ~Rejected("status") => status = StatusOf(pre, op.networkName, op.driver)
        /\ pc = "rejected" => failed[Len(failed)] # "status"

\* the load of isIntegrationComplete has failed and repairIntegration has
\* gone on with the 'unknown' result
C12_Witness ==
    /\ Done("repair")
    /\ Rejected("status")
    /\ status.missing = <<"unknown">>

\* isIntegrationComplete has reported a complete integration
C12_CompleteWitness ==
    /\ Done("repair")
    /\ ~Rejected("status")
    /\ status.complete

\* C13: resolver-restart isolation: when the dnsmasq restart fails the
\* operation does not reject, and once it has resolved the exclusion-list
\* change made before the restart is committed (saved and applied).
C13_RestartIsolation ==
    Rejected("dns_restart") =>
        /\ pc # "rejected"
        /\ pc = "done" => (saved.dhcp = dhcp /\ applied.dhcp = dhcp)

\* the netmask of the subnet given with bridge d: /16 for br0, /24 otherwise
NetmaskOf(d) == IF d = "br0" THEN <<255, 255, 0, 0>> ELSE <<255, 255, 255, 0>>

\* createIntegration has completed for a bridge network with zoneName
\* '_create_new_' on a store without sections n and d and without zone
\* podman_n, with dnsmasq configured
FreshCreateDone ==
    /\ Done("create")
    /\ op.driver = "bridge"
    /\ op.options.zoneName = "_create_new_"
    /\ ~HasSection(pre.network, op.networkName)
    /\ ~HasSection(pre.network, op.options.bridgeName)
    /\ ~ZoneExists(pre.zones, "podman_" \o op.networkName)
    /\ pre.dhcp.dnsmasq

\* the sections scenario A expects for network n with bridge d
FullIntegration(n, d, gateway) ==
    /\ network[d].stype = "device" /\ network[d].type = "bridge"
    /\ network[n].stype = "interface"
    /\ network[n].proto = "static"
    /\ network[n].device = d
    /\ network[n].ipaddr = gateway
    /\ network[n].netmask = NetmaskOf(d)
    /\ Len(SelectSeq(zones, LAMBDA z : z.name = "podman_" \o n)) = 1
    /\ LET z == ZoneNamed(zones, "podman_" \o n)
       IN  /\ z.input = "DROP" /\ z.output = "ACCEPT" /\ z.forward = "REJECT"
           /\ Members(z) = <<n>>
    /\ Len(SelectSeq(rules, LAMBDA r : r.name = "Allow-podman_" \o n \o "-DNS")) = 1
    /\ LET r == rules[FindByName(rules, "Allow-podman_" \o n \o "-DNS")]
       IN  r.src = "podman_" \o n /\ r.dest_port = "53" /\ r.target = "ACCEPT"
    /\ Excluded(dhcp, d)

\* C14: full create on a fresh store: for a bridge network n with bridge d
\* and zoneName '_create_new_', on a store without sections n and d, without
\* zone podman_n and with dnsmasq configured, createIntegration produces
\* device d of type bridge, static interface n on d with the gateway and the
\* subnet's netmask, zone podman_n (DROP/ACCEPT/REJECT, members [n]), rule
\* Allow-podman_n-DNS (src podman_n, port 53, ACCEPT) and d excluded.
C14_FullCreate ==
    FreshCreateDone => FullIntegration(op.networkName, op.options.bridgeName, op.options.gateway)

\* the zones named z
ZonesNamed(zs, z) == SelectSeq(zs, LAMBDA x : x.name = z)

\* the rules named Allow-z-DNS
DnsRulesOf(rs, z) == SelectSeq(rs, LAMBDA r : r.name = "Allow-" \o z \o "-DNS")

\* C15: joining a shared zone: when createIntegration of network n with a
\* zoneName z other than '_create_new_' has completed, there is one zone z,
\* whose member list is the previous list with n appended at its end if it
\* was absent (so networks created one after another are listed once each,
\* in creation order), and exactly one rule Allow-z-DNS.
C15_SharedZoneJoin ==
    (Done("create") /\ op.options.zoneName # "_create_new_") =>
        LET z == op.options.zoneName
            n == op.networkName
            before == IF ZoneExists(pre.zones, z)
                      THEN Members(ZoneNamed(pre.zones, z)) ELSE <<>>
        IN  /\ Len(ZonesNamed(zones, z)) = 1
            /\ Members(ZoneNamed(zones, z)) =
                   IF \E i \in 1..Len(before) : before[i] = n
                   THEN before ELSE Append(before, n)
            /\ Cardinality({i \in 1..Len(Members(ZoneNamed(zones, z))) :
                                Members(ZoneNamed(zones, z))[i] = n}) = 1
            /\ Len(DnsRulesOf(rules, z)) = 1

\* a second network has joined zone z, created by the first network's
\* createIntegration: both are listed in creation order, with one rule
C15_Witness ==
    /\ Done("create")
    /\ op.options.zoneName # "_create_new_"
    /\ ~ZoneExists(start.zones, op.options.zoneName)
    /\ ZoneExists(pre.zones, op.options.zoneName)
    /\ Len(Members(ZoneNamed(pre.zones, op.options.zoneName))) = 1
    /\ Len(Members(ZoneNamed(zones, op.options.zoneName))) = 2
    /\ Members(ZoneNamed(zones, op.options.zoneName))[2] = op.networkName
    /\ Len(DnsRulesOf(rules, op.options.zoneName)) = 1

\* on the fresh store createIntegration of bridge network n with bridge d and
\* its own new zone has completed, and then removeIntegration(n, d, 'bridge')
CreatedThenRemoved(n, d) ==
    /\ Done("remove")
    /\ op.networkName = n /\ op.deviceName = d /\ op.driver = "bridge"
    /\ start = FreshStore
    /\ pre = CreateAll(FreshStore, n, BridgeOptions(d, "_create_new_"))

\* nothing of the integration of n with bridge d is left in the store
AllRemoved(n, d) ==
    /\ ~HasSection(network, n)
    /\ ~HasSection(network, d)
    /\ ~ZoneExists(zones, "podman_" \o n)
    /\ DnsRulesOf(rules, "podman_" \o n) = <<>>
    /\ ~Excluded(dhcp, d)

\* C16: create then remove: after createIntegration of bridge network n with
\* its own new zone on the fresh store and removeIntegration(n, d, 'bridge'),
\* interface n, device d, zone podman_n, rule Allow-podman_n-DNS and the
\* exclusion entry of d are absent, and isIntegrationComplete(n) reports
\* complete = false with interface, device and dnsmasq all listed as missing.
C16_CreateThenRemove ==
    \A n \in Networks, d \in Bridges :
        CreatedThenRemoved(n, d) =>
            /\ AllRemoved(n, d)
            /\ LET st == StatusOf(Store, n, "bridge")
               IN  /\ ~st.complete
                   /\ \A c \in {"interface", "device", "dnsmasq"} :
                          \E i \in 1..Len(st.missing) : st.missing[i] = c

\* C17: repair of a complete integration is a no-op: when
\* isIntegrationComplete reports complete, repairIntegration returns
\* added = [] at once: no edit is staged, save, apply, flushCache and the
\* dnsmasq restart are not called, and the store is unchanged.
C17_RepairCompleteNoOp ==
    (op.kind = "repair" /\ pc # "load" /\ status.complete) =>
        /\ pc = "done"
        /\ ret = [added |-> <<>>, skipped |-> <<"complete">>]
        /\ Store = pre
        /\ log = <<"status">>

\* repairIntegration has returned for an integration that was complete
C17_Witness ==
    /\ Done("repair")
    /\ status.complete
    /\ HasSection(network, op.networkName)

\* C18: repairIntegration never changes the firewall configuration: at
\* every step of a repairIntegration the zones (names, policies, member
\* lists) and the rules are as they were when it was called, and what it
\* saves and applies of the firewall is the same.
C18_RepairKeepsFirewall ==
    op.kind = "repair" =>
        /\ zones = pre.zones
        /\ rules = pre.rules
        /\ saved.zones = pre.zones /\ saved.rules = pre.rules
        /\ pc = "done" => (applied.zones = pre.zones /\ applied.rules = pre.rules)

\* repairIntegration has added components on a store that has firewall zones
C18_Witness ==
    /\ Done("repair")
    /\ ret.added # <<>>
    /\ network # pre.network
    /\ zones # <<>>

\* firewall configurations to compare the store's with: none, the ones of
\* the initial stores, and the one before the operation
Firewalls ==
    {[zones |-> f.zones, rules |-> f.rules] : f \in InitStores \cup {pre, saved}}

WithFirewall(s, f) == [s EXCEPT !.zones = f.zones, !.rules = f.rules]

\* C19: status is independent of the firewall: a store that agrees with the
\* current one on network and dhcp and differs in zones, memberships or rules
\* gets the same complete, missing and details from isIntegrationComplete.
C19_StatusIgnoresFirewall ==
    \A f \in Firewalls, n \in Networks, driver \in Drivers :
        StatusOf(WithFirewall(Store, f), n, driver) = StatusOf(Store, n, driver)

\* createIntegration has made a network complete and a member of a zone: the
\* firewall before the call, in which it is no member, gives the same status
C19_Witness ==
    /\ Done("create")
    /\ StatusOf(Store, op.networkName, "bridge").complete
    /\ \E i \in 1..Len(zones) : Includes(Members(zones[i]), op.networkName)
    /\ \A i \in 1..Len(pre.zones) : ~Includes(Members(pre.zones[i]), op.networkName)
    /\ StatusOf(WithFirewall(Store, pre), op.networkName, "bridge").complete

\* the value of a string of hexadecimal digits
RECURSIVE HexValue(_)
HexValue(h) ==
    IF h = "" THEN 0
    ELSE 16 * HexValue(SubSeq(h, 1, Len(h) - 1)) + DigitValue(SubSeq(h, Len(h), Len(h)))

\* the first three hextets of each ULA prefix
FirstThree(prefix) ==
    CASE prefix = "fd52:425:78eb::/48" -> "fd52:425:78eb"
      [] prefix = "fd00::/8" -> "fd00:0:0"
      [] prefix = "fdaa:bb::/32" -> "fdaa:bb:0"
      [] prefix = "fd52:425:78eb:0:0:0:0:0/48" -> "fd52:425:78eb"

\* r is the /64 made of the prefix's first three hextets and the 4-digit
\* hextet of value o[1] * 256 + o[2], with the gateway at host offset 1
DerivedFrom(r, o, prefix) ==
    LET sub == r.ipv6subnet
        n == Len(sub)
    IN  /\ n = Len(FirstThree(prefix)) + 10
        /\ SubSeq(sub, 1, n - 10) = FirstThree(prefix)
        /\ SubSeq(sub, n - 9, n - 9) = ":"
        /\ HexValue(SubSeq(sub, n - 8, n - 5)) = o[1] * 256 + o[2]
        /\ SubSeq(sub, n - 4, n) = "::/64"
        /\ r.ipv6gateway = SubSeq(sub, 1, n - 3) \o "1"

\* C20: ULA derivation: deriveUlaFromIpv4 returns the /64 whose fourth hextet
\* is octet3 * 256 + octet4 in 4 hex digits after the first three hextets of
\* the ULA prefix, and the gateway at host offset 1 in it; equal inputs give
\* equal results, and under one ULA prefix two IPv4 subnets that differ in
\* octet 3 or octet 4 give different IPv6 subnets.
C20_UlaDerivation ==
    ula.out # <<>> =>
        /\ DerivedFrom(ula.out[1], ula.a, ula.prefix)
        /\ DerivedFrom(ula.out[2], ula.b, ula.prefix)
        /\ ula.a = ula.b => ula.out[1] = ula.out[2]
        /\ ula.a # ula.b => ula.out[1].ipv6subnet # ula.out[2].ipv6subnet

\* two subnets that differ in octet 3 only have been derived under a prefix
\* that has fewer than three hextets
C20_Witness ==
    /\ ula.out # <<>>
    /\ ula.prefix = "fd00::/8"
    /\ ula.a = <<1, 16>>
    /\ ula.b = <<0, 16>>
    /\ ula.out[1].ipv6subnet = "fd00:0:0:0110::/64"
    /\ ula.out[1].ipv6gateway = "fd00:0:0:0110::1"

\* removeIntegration(n, d, driver) has deleted the device section d
DeviceDeleted ==
    /\ pre.network[op.deviceName].stype = "device"
    /\ ~HasSection(network, op.deviceName)

\* C21: removeIntegration changes the resolver's exclusion list and restarts
\* the resolver only for a bridge-driver network and only when the call has
\* deleted the bridge device section; when the device section was kept or was
\* already absent, the list is unchanged and the resolver is not restarted.
C21_DnsmasqOnlyWhenDeleted ==
    (op.kind = "remove" /\ (dhcp # pre.dhcp \/ Pos("restart") # 0)) =>
        (needsBridge(op.driver) /\ DeviceDeleted)

\* the zones that list network n as a member
ZonesListing(zs, n) == {i \in 1..Len(zs) : Includes(Members(zs[i]), n)}

\* C22: after a completed removeIntegration(n, d, driver) no firewall zone
\* lists n as a member, whatever createIntegration calls came before
\* (creating n more than once with different zoneName values included).
C22_NoZoneListsRemoved ==
    Done("remove") => ZonesListing(zones, op.networkName) = {}

\* zone z after createIntegration of network n with zone name zoneName, z
\* being the zone before: as it was, or with n appended to its member list
\* if the zone has that name and n was absent
KeptOrJoined(z, before, n, zoneName) ==
    \/ z = before
    \/ /\ before.name = zoneName
       /\ ~Includes(Members(before), n)
       /\ z.name = before.name
       /\ z.input = before.input /\ z.output = before.output /\ z.forward = before.forward
       /\ Members(z) = Append(Members(before), n)

\* C23: create adds but never overwrites: createIntegration changes no
\* option of a device section, interface section or DNS rule that existed
\* before the call, and changes nothing of a zone that existed except
\* appending the network to its member list when absent, also when the
\* gateway, subnet or device given differ from the stored values.
C23_CreateNeverOverwrites ==
    op.kind = "create" =>
        /\ \A s \in SectionNames : HasSection(pre.network, s) => network[s] = pre.network[s]
        /\ Len(rules) >= Len(pre.rules)
        /\ \A i \in 1..Len(pre.rules) : rules[i] = pre.rules[i]
        /\ Len(zones) >= Len(pre.zones)
        /\ \A i \in 1..Len(pre.zones) :
               KeptOrJoined(zones[i], pre.zones[i], op.networkName,
                            ZoneNameOf(op.networkName, op.options))

\* createIntegration has completed for a network whose interface existed with
\* another device and another address, and has joined a zone that existed
C23_Witness ==
    /\ Done("create")
    /\ pre.network[op.networkName].stype = "interface"
    /\ pre.network[op.networkName].device # op.deviceName
    /\ pre.network[op.networkName].ipaddr # op.options.gateway
    /\ ZoneExists(pre.zones, ZoneNameOf(op.networkName, op.options))
    /\ zones # pre.zones
    /\ network[op.networkName] = pre.network[op.networkName]

\* how many times x occurs in list l
Occurrences(l, x) == Cardinality({i \in 1..Len(l) : l[i] = x})

\* C24: zone membership has no duplicates: starting from zone member lists
\* without duplicates, after any sequence of createIntegration and
\* removeIntegration calls every zone's member list contains each network
\* name at most once.
C24_NoDuplicateMembers ==
    \A i \in 1..Len(zones) : \A n \in Networks : Occurrences(Members(zones[i]), n) <= 1

\* createIntegration has completed for a network that was already a member
\* of the zone it names, a zone with two members
C24_Witness ==
    /\ Done("create")
    /\ ZoneExists(pre.zones, ZoneNameOf(op.networkName, op.options))
    /\ Includes(Members(ZoneNamed(pre.zones, ZoneNameOf(op.networkName, op.options))),
                op.networkName)
    /\ Len(Members(ZoneNamed(zones, ZoneNameOf(op.networkName, op.options)))) = 2

\* C25: status of a bridge-driver network whose interface names a device:
\* isIntegrationComplete reports 'device' as missing whenever the section of
\* that name is absent or has a type other than 'bridge', reports 'dnsmasq'
\* as missing exactly when a resolver section exists and the device is not
\* in its exclusion list, and not when no resolver section is configured.
C25_BridgeStatus ==
    Settled =>
        \A n \in {m \in Networks : "bridge" \in OwnDriver[m]} :
            LET st == StatusOf(Store, n, "bridge")
                d == network[n].device
            IN  (network[n].stype = "interface" /\ d # "") =>
                    /\ (~HasSection(network, d) \/ network[d].type # "bridge")
                           => Includes(st.missing, "device")
                    /\ Includes(st.missing, "dnsmasq") <=> (dhcp.dnsmasq /\ ~Excluded(dhcp, d))
                    /\ ~dhcp.dnsmasq => ~Includes(st.missing, "dnsmasq")

C26_ScalarWitness ==
    /\ Done("create")
    /\ pre.dhcp.notinterface = ScalarVal("wan")
    /\ dhcp.notinterface = ArrayVal(<<"wan", op.deviceName>>)

\* the cleanups whose removeIntegration is in flight
InFlight == {i \in 1..Len(bulk.items) : bulk.at[i] \in FlightSteps}

\* the cleanups that have been started
Started == {i \in 1..Len(bulk.items) : bulk.at[i] \in FlightSteps \cup SettledSteps}

\* C27: integration removals of a bulk delete are serialised: the cleanup of
\* a network starts only after the cleanups of the networks before it have
\* settled, save and apply included, so no two removeIntegration are in
\* flight together; a cleanup that fails does not reject the chain, and when
\* the chain resolves the cleanup of every deleted network has run.
C27_SerialisedCleanup ==
    /\ Cardinality(InFlight) <= 1
    /\ \A i \in Started : \A j \in 1..(i - 1) :
           /\ j \notin InFlight
           /\ bulk.at[j] # "pending"
    /\ \A i \in 1..Len(bulk.items) : bulk.at[i] # "rejected"
    /\ bulk.chain = "resolved" =>
           \A i \in 1..Len(bulk.items) : bulk.at[i] \in {"nodelete", "done", "error"}

\* the cleanup of the first network has failed and the cleanup of the second
\* has run to its end, with its edits saved and applied
C27_Witness ==
    /\ bulk.chain = "resolved"
    /\ Len(bulk.items) = 2
    /\ bulk.at = <<"error", "done">>
    /\ bulk.items[2].hasOpenwrt
    /\ ~HasSection(applied.network, bulk.items[2].name)

\* the second cleanup is in flight after the first has completed
C27_SecondWitness ==
    /\ Len(bulk.items) = 2
    /\ bulk.items[1].hasOpenwrt
    /\ bulk.at[1] = "done"
    /\ bulk.at[2] = "apply"

\* C28: removeIntegration(n, d, driver) affects only network n: it neither
\* deletes nor modifies the interface section of another network, and the
\* only sections of the network package it deletes are the interface named
\* n and a device-type section named d.
C28_RemoveOnlyOwn ==
    Done("remove") =>
        \A s \in SectionNames :
            /\ (pre.network[s].stype = "interface" /\ s # op.networkName)
                   => network[s] = pre.network[s]
            /\ (HasSection(pre.network, s) /\ ~HasSection(network, s))
                   => \/ s = op.networkName /\ pre.network[s].stype = "interface"
                      \/ s = op.deviceName /\ pre.network[s].stype = "device"

\* C29: create reaches a complete integration: after createIntegration of a
\* bridge-driver network n has completed, isIntegrationComplete(n, 'bridge')
\* reports complete = true, whatever the store was before, also when a
\* section named n or d of another type existed or when n equals d.
C29_CreateCompletes ==
    (Done("create") /\ op.driver = "bridge") =>
        StatusOf(Store, op.networkName, "bridge").complete

\* C30: repair converges: when isIntegrationComplete has reported the
\* integration of n incomplete and repairIntegration has completed, a
\* following isIntegrationComplete(n, driver) reports complete = true, also
\* when the interface's device differs from opts.bridgeName, when the
\* interface has no device option, and when a section with the device's name
\* has a type other than bridge.
C30_RepairConverges ==
    (Done("repair") /\ ~status.complete) =>
        StatusOf(Store, op.networkName, op.driver).complete

====
